---------------------------- MODULE Spec2Model ----------------------------
(***************************************************************************)
(* Model of the ADSE exploration project: the parameter-space model        *)
(* (config_models.py), the run driver (main.py) and the report parser and  *)
(* result aggregator (analyzer.py).                                        *)
(*                                                                         *)
(* Representation conventions                                              *)
(*   Optional[T]      a sequence of length <= 1: <<>> is None, <<v>> is v  *)
(*   Python list      a sequence                                           *)
(*   dataclass/model  a record with the fields of the class               *)
(*   str              a TLA+ string, built with \o as the f-strings do     *)
(***************************************************************************)
EXTENDS Integers, Sequences, FiniteSets, TLC

VARIABLES
    config,        \* main.py: the loaded ADSEConfig
    all_configs,   \* main.py: list returned by generate_all_configurations
    cfg_idx,       \* main.py: the loop counter, 1-based
    pc,            \* main.py: position of the script
    invocations,   \* argv of every simulator process started so far
    exits,         \* exit status of every simulator process that has exited
    cfgA, cfgB,    \* two ConfigurationSet inputs of to_cli_args
    argsA, argsB,  \* ConfigurationSet.to_cli_args() of cfgA and of cfgB
    argsDev,       \* per role, <instance>.to_cli_args(role) of cfgA's slot
    cli_pc,        \* "input" before the serialization, "serialized" after
    workspace_path,\* SimulationAnalyzer.workspace_path, a Path
    parse_file,    \* the report file handed to a parser
    parse_out,     \* what the parser call did: [raised, metrics]
    parse_pc,      \* "input", then the name of the parser that was called
    tree,          \* the files below the workspace root
    data,          \* SimulationAnalyzer.data
    metrics_df,    \* SimulationAnalyzer.metrics_df
    power_data,    \* SimulationAnalyzer.power_data
    power_df,      \* SimulationAnalyzer.power_df
    passes,        \* number of analyze_all calls made on the analyzer
    error,         \* whether an exception has left analyze_all
    an_pc          \* "constructed", "analyzed", then what analyse_results did

driverVars == <<config, all_configs, cfg_idx, pc, invocations, exits>>
cliVars == <<cfgA, cfgB, argsA, argsB, argsDev, cli_pc>>
parseVars == <<workspace_path, parse_file, parse_out, parse_pc>>
analyzerVars == <<tree, data, metrics_df, power_data, power_df, passes, error, an_pc>>
vars == <<driverVars, cliVars, parseVars, analyzerVars>>

-----------------------------------------------------------------------------
(* Bounds of the model *)

\* largest number of axes of an Exploration Request that carry values
MaxAxes == 2
\* largest number of candidate values on one axis
MaxAxisLen == 2
\* largest number of device slots of a serialized ConfigurationSet that hold
\* an instance
MaxSlots == 2
\* largest number of lines of a report text
MaxLines == 2
\* largest number of files below the workspace root
MaxFiles == 3
\* largest number of analyze_all calls on one analyzer
MaxPasses == 2

-----------------------------------------------------------------------------
(* Names fixed by the source *)

CacheRoles == <<"l1_icache", "l1_dcache", "l2_cache", "l3_cache", "l4_cache">>
TLBRoles == <<"itlb", "dtlb">>
CacheAxes == <<"cache_size", "cache_block_size", "associativity", "replacement">>
TLBAxes == <<"entries", "associativity", "page_size">>

Range(s) == {s[i] : i \in DOMAIN s}

IsCacheRole(role) == role \in Range(CacheRoles)

\* the axes (fields) of a role, in declaration order
AxesOf(role) == IF IsCacheRole(role) THEN CacheAxes ELSE TLBAxes

None == <<>>
Some(v) == <<v>>

-----------------------------------------------------------------------------
(* config_models.py: device instances and their serialization *)

CacheInstance(cache_size, cache_block_size, associativity, replacement) ==
    [cache_size |-> cache_size, cache_block_size |-> cache_block_size,
     associativity |-> associativity, replacement |-> replacement]

TLBInstance(entries, associativity, page_size) ==
    [entries |-> entries, associativity |-> associativity, page_size |-> page_size]

\* {value} as the f-string renders it: "replacement" is the one field declared
\* Optional[str] and is copied unchanged, every other field is Optional[int]
\* and is written in decimal
Str(param, v) == IF param = "replacement" THEN v ELSE ToString(v)

\* f'"perf_model/{prefix}/<param>={value}"' (the quotes are part of the text)
OverrideArg(prefix, param, v) ==
    "\"perf_model/" \o prefix \o "/" \o param \o "=" \o Str(param, v) \o "\""

\* variant testing truthiness ("if self.<param>:") instead of "is not None"
ArgIfTruthy(prefix, param, opt) ==
    IF opt # None /\ ~(param # "replacement" /\ opt[1] = 0)
    THEN <<OverrideArg(prefix, param, opt[1])>> ELSE <<>>

\* one "if self.<param> is not None: args.append(...)" statement
ArgIfSet(prefix, param, opt) ==
    IF opt # None THEN <<OverrideArg(prefix, param, opt[1])>> ELSE <<>>

CacheInstance_to_cli_args(self, prefix) ==
    ArgIfSet(prefix, "cache_size", self.cache_size)
    \o ArgIfSet(prefix, "cache_block_size", self.cache_block_size)
    \o ArgIfSet(prefix, "associativity", self.associativity)
    \o ArgIfSet(prefix, "replacement", self.replacement)

TLBInstance_to_cli_args(self, prefix) ==
    ArgIfSet(prefix, "entries", self.entries)
    \o ArgIfSet(prefix, "associativity", self.associativity)
    \o ArgIfSet(prefix, "page_size", self.page_size)

\* "if self.<role>: args.extend(self.<role>.to_cli_args("<role>"))": a dataclass
\* instance defines neither __bool__ nor __len__, so it is truthy whatever its
\* fields hold, and only None skips the statement
ExtendCache(slot, prefix) ==
    IF slot # None THEN CacheInstance_to_cli_args(slot[1], prefix) ELSE <<>>

ExtendTLB(slot, prefix) ==
    IF slot # None THEN TLBInstance_to_cli_args(slot[1], prefix) ELSE <<>>

\* variant visiting the roles in the order of the field declarations
ConfigurationSet_to_cli_args_declared_order(self) ==
    ExtendCache(self.l1_icache, "l1_icache")
    \o ExtendCache(self.l1_dcache, "l1_dcache")
    \o ExtendCache(self.l2_cache, "l2_cache")
    \o ExtendCache(self.l3_cache, "l3_cache")
    \o ExtendCache(self.l4_cache, "l4_cache")
    \o ExtendTLB(self.itlb, "itlb")
    \o ExtendTLB(self.dtlb, "dtlb")

ConfigurationSet_to_cli_args(self) ==
    ExtendTLB(self.itlb, "itlb")
    \o ExtendTLB(self.dtlb, "dtlb")
    \o ExtendCache(self.l1_icache, "l1_icache")
    \o ExtendCache(self.l1_dcache, "l1_dcache")
    \o ExtendCache(self.l2_cache, "l2_cache")
    \o ExtendCache(self.l3_cache, "l3_cache")
    \o ExtendCache(self.l4_cache, "l4_cache")

-----------------------------------------------------------------------------
(* config_models.py: expansion of the parameter space *)

\* [(a,) + r for r in rs]
Prepend(a, rs) == [k \in 1..Len(rs) |-> <<a>> \o rs[k]]

\* [(a,) + r for a in A for r in rs]
RECURSIVE PrependEach(_, _)
PrependEach(A, rs) ==
    IF A = <<>> THEN <<>>
    ELSE Prepend(Head(A), rs) \o PrependEach(Tail(A), rs)

\* itertools.product(*lists): tuples in lexicographic order, last list fastest
RECURSIVE Product(_)
Product(lists) ==
    IF lists = <<>> THEN << <<>> >>
    ELSE PrependEach(Head(lists), Product(Tail(lists)))

\* "xs if xs else [None]" over a list of plain values
OrNoneList(xs) == IF xs # <<>> THEN [i \in 1..Len(xs) |-> Some(xs[i])] ELSE <<None>>

\* variant without the "if not any([...]): return []" guard
CacheConfig_generate_combinations_unguarded(self) ==
    LET combos == Product(<<OrNoneList(self.cache_size),
                            OrNoneList(self.cache_block_size),
                            OrNoneList(self.associativity),
                            OrNoneList(self.replacement)>>)
    IN  [k \in 1..Len(combos) |->
           CacheInstance(combos[k][1], combos[k][2], combos[k][3], combos[k][4])]

CacheConfig_generate_combinations(self) ==
    IF self.cache_size = <<>> /\ self.cache_block_size = <<>>
       /\ self.associativity = <<>> /\ self.replacement = <<>>
    THEN <<>>
    ELSE LET combos == Product(<<OrNoneList(self.cache_size),
                                 OrNoneList(self.cache_block_size),
                                 OrNoneList(self.associativity),
                                 OrNoneList(self.replacement)>>)
         IN  [k \in 1..Len(combos) |->
                CacheInstance(combos[k][1], combos[k][2], combos[k][3], combos[k][4])]

TLBConfig_generate_combinations(self) ==
    IF self.entries = <<>> /\ self.associativity = <<>> /\ self.page_size = <<>>
    THEN <<>>
    ELSE LET combos == Product(<<OrNoneList(self.entries),
                                 OrNoneList(self.associativity),
                                 OrNoneList(self.page_size)>>)
         IN  [k \in 1..Len(combos) |->
                TLBInstance(combos[k][1], combos[k][2], combos[k][3])]

\* variant without the "or [None]" fallback
CombosNoFallback(combos) == [i \in 1..Len(combos) |-> Some(combos[i])]

\* "<role>.generate_combinations() or [None]"
CombosOrNone(combos) ==
    IF combos # <<>> THEN [i \in 1..Len(combos) |-> Some(combos[i])] ELSE <<None>>

ConfigurationSet(l1_icache, l1_dcache, l2_cache, l3_cache, l4_cache, itlb, dtlb) ==
    [l1_icache |-> l1_icache, l1_dcache |-> l1_dcache, l2_cache |-> l2_cache,
     l3_cache |-> l3_cache, l4_cache |-> l4_cache, itlb |-> itlb, dtlb |-> dtlb]

\* the seven lists handed to product(), in the order of the call
RoleCombos(self) ==
    <<CombosOrNone(CacheConfig_generate_combinations(self.caches.l1_icache)),
      CombosOrNone(CacheConfig_generate_combinations(self.caches.l1_dcache)),
      CombosOrNone(CacheConfig_generate_combinations(self.caches.l2_cache)),
      CombosOrNone(CacheConfig_generate_combinations(self.caches.l3_cache)),
      CombosOrNone(CacheConfig_generate_combinations(self.caches.l4_cache)),
      CombosOrNone(TLBConfig_generate_combinations(self.TLBs.itlb)),
      CombosOrNone(TLBConfig_generate_combinations(self.TLBs.dtlb))>>

\* variant handing the TLB lists to product() first
generate_all_configurations_tlb_first(self) ==
    LET rc == RoleCombos(self)
        combos == Product(<<rc[6], rc[7], rc[1], rc[2], rc[3], rc[4], rc[5]>>)
    IN  [k \in 1..Len(combos) |->
           ConfigurationSet(combos[k][3], combos[k][4], combos[k][5], combos[k][6],
                            combos[k][7], combos[k][1], combos[k][2])]

generate_all_configurations(self) ==
    LET combos == Product(RoleCombos(self))
    IN  [k \in 1..Len(combos) |->
           ConfigurationSet(combos[k][1], combos[k][2], combos[k][3], combos[k][4],
                            combos[k][5], combos[k][6], combos[k][7])]


-----------------------------------------------------------------------------
(* Bounded Exploration Requests *)

\* the axes that may carry values in a modelled request: at least one axis of
\* every role, several of one cache and of one TLB, every kind of axis
ExploredAxes ==
    {<<"l1_icache", "cache_size">>, <<"l1_icache", "associativity">>,
     <<"l1_icache", "replacement">>, <<"l1_dcache", "cache_block_size">>,
     <<"l2_cache", "cache_size">>, <<"l3_cache", "associativity">>,
     <<"l4_cache", "replacement">>,
     <<"itlb", "entries">>, <<"itlb", "page_size">>, <<"dtlb", "associativity">>}

ReplacementNames == <<"lru", "round_robin", "random", "nru", "plru", "srrip">>

\* the candidate list of n values put on an axis: n distinct values, not sorted
AxisValues(axis, n) ==
    IF axis = "replacement" THEN [i \in 1..n |-> ReplacementNames[n - i + 1]]
    ELSE [i \in 1..n |-> n - i]

\* the sets of at most k explored axes
RECURSIVE AxisSubsets(_)
AxisSubsets(k) ==
    IF k = 0 THEN {{}}
    ELSE LET smaller == AxisSubsets(k - 1)
         IN  smaller \cup {s \cup {a} : s \in smaller, a \in ExploredAxes}

\* lens maps each axis that carries values to the number of its values
AxisList(lens, role, axis) ==
    IF <<role, axis>> \in DOMAIN lens THEN AxisValues(axis, lens[<<role, axis>>])
    ELSE <<>>

CacheConfig(lens, role) ==
    [cache_size |-> AxisList(lens, role, "cache_size"),
     cache_block_size |-> AxisList(lens, role, "cache_block_size"),
     associativity |-> AxisList(lens, role, "associativity"),
     replacement |-> AxisList(lens, role, "replacement")]

TLBConfig(lens, role) ==
    [entries |-> AxisList(lens, role, "entries"),
     associativity |-> AxisList(lens, role, "associativity"),
     page_size |-> AxisList(lens, role, "page_size")]

ExplorerConfig(lens) ==
    [caches |-> [l1_icache |-> CacheConfig(lens, "l1_icache"),
                 l1_dcache |-> CacheConfig(lens, "l1_dcache"),
                 l2_cache |-> CacheConfig(lens, "l2_cache"),
                 l3_cache |-> CacheConfig(lens, "l3_cache"),
                 l4_cache |-> CacheConfig(lens, "l4_cache")],
     TLBs |-> [itlb |-> TLBConfig(lens, "itlb"),
               dtlb |-> TLBConfig(lens, "dtlb")]]

ADSEConfig(lens) ==
    [run_sniper_path |-> "run-sniper", output_dir |-> "out",
     cfgfile |-> "base.cfg", benchmark_path |-> "bench",
     parameters |-> ExplorerConfig(lens)]

Requests ==
    {ADSEConfig(lens) : lens \in UNION {[s -> 1..MaxAxisLen] : s \in AxisSubsets(MaxAxes)}}

\* exit statuses the simulator process may return
ExitStatuses == {0, 1, 2}

-----------------------------------------------------------------------------
(* main.py: the run driver *)

\* variant numbering the directories from 0
OutDir_zero_based(output_dir, idx) ==
    output_dir \o "/configuration_" \o ToString(idx - 1)

\* f"{config.output_dir}/configuration_{cfg_idx}"
OutDir(output_dir, idx) == output_dir \o "/configuration_" \o ToString(idx)

\* "for override in cfg_args: command.extend(["-c", override])"
RECURSIVE OverrideFlags(_)
OverrideFlags(cfg_args) ==
    IF cfg_args = <<>> THEN <<>>
    ELSE <<"-c", Head(cfg_args)>> \o OverrideFlags(Tail(cfg_args))

\* the argv list built in the loop body for configuration cfg at index idx
Command(cfg, idx) ==
    <<config.run_sniper_path, "-v", "--power", "-n", "1", "-c", config.cfgfile>>
    \o OverrideFlags(ConfigurationSet_to_cli_args(cfg))
    \o <<"-d", OutDir(config.output_dir, idx), "--", config.benchmark_path, "-p", "1">>

\* all_configs = config.parameters.generate_all_configurations(); cfg_idx = 1
Generate ==
    /\ pc = "start"
    /\ all_configs' = generate_all_configurations(config.parameters)
    /\ cfg_idx' = 1
    /\ pc' = "loop"
    /\ UNCHANGED <<config, invocations, exits>>

\* the loop body up to the moment subprocess.run has started the process
StartRun ==
    /\ pc = "loop"
    /\ cfg_idx <= Len(all_configs)
    /\ invocations' = Append(invocations, Command(all_configs[cfg_idx], cfg_idx))
    /\ pc' = "running"
    /\ UNCHANGED <<config, all_configs, cfg_idx, exits>>

\* variant calling subprocess.run without check=True: the status is ignored
RunExit_unchecked ==
    /\ pc = "running"
    /\ \E status \in ExitStatuses :
         /\ exits' = Append(exits, status)
         /\ cfg_idx' = cfg_idx + 1
         /\ pc' = "loop"
    /\ UNCHANGED <<config, all_configs, invocations>>

\* subprocess.run(command, check=True) returns: status 0 goes on to
\* "cfg_idx += 1"; any other status raises CalledProcessError, which nothing
\* catches, so the script ends there
RunExit ==
    /\ pc = "running"
    /\ \E status \in ExitStatuses :
         /\ exits' = Append(exits, status)
         /\ IF status = 0
            THEN /\ cfg_idx' = cfg_idx + 1
                 /\ pc' = "loop"
            ELSE /\ pc' = "failed"
                 /\ UNCHANGED cfg_idx
    /\ UNCHANGED <<config, all_configs, invocations>>

\* the loop is exhausted: analyzer.analyse_results(config.output_dir) is called
AnalyseResultsCall ==
    /\ pc = "loop"
    /\ cfg_idx > Len(all_configs)
    /\ pc' = "analysed"
    /\ UNCHANGED <<config, all_configs, cfg_idx, invocations, exits>>

Init ==
    /\ config \in Requests
    /\ all_configs = <<>>
    /\ cfg_idx = 0
    /\ pc = "start"
    /\ invocations = <<>>
    /\ exits = <<>>
    /\ cfgA = <<>> /\ cfgB = <<>> /\ argsA = <<>> /\ argsB = <<>>
    /\ argsDev = <<>> /\ cli_pc = "unused"
    /\ workspace_path = <<>> /\ parse_file = <<>> /\ parse_out = <<>>
    /\ parse_pc = "unused"
    /\ tree = {} /\ data = <<>> /\ metrics_df = <<>> /\ power_data = <<>>
    /\ power_df = <<>> /\ passes = 0 /\ error = FALSE /\ an_pc = "unused"

Next ==
    \/ Generate /\ UNCHANGED <<cliVars, parseVars, analyzerVars>>
    \/ StartRun /\ UNCHANGED <<cliVars, parseVars, analyzerVars>>
    \/ RunExit /\ UNCHANGED <<cliVars, parseVars, analyzerVars>>
    \/ AnalyseResultsCall /\ UNCHANGED <<cliVars, parseVars, analyzerVars>>

Spec == Init /\ [][Next]_vars

-----------------------------------------------------------------------------
(* Parameter space: counting and ordering of the generated configurations *)

\* the order in which the fields of ConfigurationSet are declared and in which
\* the per-role lists are handed to product()
DeclaredOrder ==
    <<"l1_icache", "l1_dcache", "l2_cache", "l3_cache", "l4_cache", "itlb", "dtlb">>

\* the order in which ConfigurationSet.to_cli_args visits the roles
SerialOrder ==
    <<"itlb", "dtlb", "l1_icache", "l1_dcache", "l2_cache", "l3_cache", "l4_cache">>

\* the Device Parameter Range of a role in the loaded request
RangeOf(role) ==
    IF IsCacheRole(role) THEN config.parameters.caches[role]
    ELSE config.parameters.TLBs[role]

\* the role has no axis with values
NoAxes(role) == \A i \in DOMAIN AxesOf(role) : RangeOf(role)[AxesOf(role)[i]] = <<>>

\* generate_combinations() of the role's range
GenComb(role) ==
    IF IsCacheRole(role) THEN CacheConfig_generate_combinations(RangeOf(role))
    ELSE TLBConfig_generate_combinations(RangeOf(role))

\* the instance with every field unset
FullyUnset(role) ==
    IF IsCacheRole(role) THEN CacheInstance(None, None, None, None)
    ELSE TLBInstance(None, None, None)

RECURSIVE ProdOver(_, _)
\* the product of f[x] over the elements x of the sequence s
ProdOver(f, s) == IF s = <<>> THEN 1 ELSE f[Head(s)] * ProdOver(f, Tail(s))

\* an axis without values counts as 1
AxisCount == [role \in Range(DeclaredOrder) |->
                [axis \in Range(AxesOf(role)) |->
                    IF RangeOf(role)[axis] = <<>> THEN 1 ELSE Len(RangeOf(role)[axis])]]

\* c(role) of the count claim
RoleCount == [role \in Range(DeclaredOrder) |-> ProdOver(AxisCount[role], AxesOf(role))]

Generated == pc # "start"

\* C1: generate_all_configurations returns as many configurations as the
\* product over the seven roles of c(role), where c(role) is the product of the
\* lengths of the role's non-empty axis lists (1 when it has none).
C1_ConfigurationCount ==
    Generated => \A c \in {RoleCount} : Len(all_configs) = ProdOver(c, DeclaredOrder)

\* a request exploring two axes of one cache while other roles explore nothing
C1_Witness ==
    /\ Generated
    /\ Len(all_configs) = 4
    /\ Len(RangeOf("l1_icache").cache_size) = 2
    /\ Len(RangeOf("l1_icache").replacement) = 2
    /\ NoAxes("itlb")

\* the per-role list that takes part in the product
SlotChoices == [role \in Range(DeclaredOrder) |-> CombosOrNone(GenComb(role))]

SlotCount == [role \in Range(DeclaredOrder) |-> Len(SlotChoices[role])]

\* all_configs is the product of the per-role lists in lexicographic order with
\* the roles taken in the order ord (ord[1] slowest, the last fastest): slot
\* ord[p] of configuration i holds the choice whose index is the digit at
\* position p of i - 1 written in the mixed radix of the list lengths
InProductOrder(ord) ==
    \A choices \in {SlotChoices} :
    \A count \in {[role \in Range(DeclaredOrder) |-> Len(choices[role])]} :
    \* weight[p]: the product of the lengths of the positions after p
    \A weight \in {[p \in 1..Len(ord) |-> ProdOver(count, SubSeq(ord, p + 1, Len(ord)))]} :
        /\ Len(all_configs) = ProdOver(count, ord)
        /\ \A i \in 1..Len(all_configs) : \A p \in 1..Len(ord) :
              all_configs[i][ord[p]]
                = choices[ord[p]][(((i - 1) \div weight[p]) % count[ord[p]]) + 1]

\* C2 as stated: the list is in product order with the roles taken in the
\* order itlb, dtlb, l1_icache, l1_dcache, l2_cache, l3_cache, l4_cache.
C2_OrderTLBFirst == Generated => InProductOrder(SerialOrder)

\* C2 amended: the list is in product order with the roles taken in the order
\* l1_icache, l1_dcache, l2_cache, l3_cache, l4_cache, itlb, dtlb (instruction
\* cache slowest, data TLB fastest).
C2_OrderAsDeclared == Generated => InProductOrder(DeclaredOrder)

\* a request exploring one cache axis and one TLB axis, two values each
C2_Witness ==
    /\ Generated
    /\ Len(all_configs) = 4
    /\ SlotCount["l2_cache"] = 2
    /\ SlotCount["itlb"] = 2

\* C3 as stated: a device without configured values has the one-element
\* instance set holding the fully-unset instance, and that instance fills the
\* device's slot in every generated configuration.
C3_UnsetInstanceSlot ==
    Generated =>
        \A role \in Range(DeclaredOrder) :
            NoAxes(role) =>
                /\ GenComb(role) = <<FullyUnset(role)>>
                /\ \A i \in 1..Len(all_configs) :
                      all_configs[i][role] = Some(FullyUnset(role))

\* C3 amended: a device without configured values has an empty instance list,
\* it still counts for one factor of the product, and its slot is absent (None)
\* in every generated configuration.
C3_AbsentSlot ==
    Generated =>
        \A role \in Range(DeclaredOrder) :
            NoAxes(role) =>
                /\ GenComb(role) = <<>>
                /\ Len(CombosOrNone(GenComb(role))) = 1
                /\ Len(all_configs) >= 1
                /\ \A i \in 1..Len(all_configs) : all_configs[i][role] = None

\* a request in which one role explores values and another explores none
C3_Witness ==
    /\ Generated
    /\ Len(all_configs) = 2
    /\ NoAxes("l3_cache")
    /\ ~NoAxes("dtlb")

-----------------------------------------------------------------------------
(* Run driver *)

\* the values that follow the flag in argv, in order
RECURSIVE FlagValues(_, _)
FlagValues(argv, flag) ==
    IF Len(argv) < 2 THEN <<>>
    ELSE IF Head(argv) = flag
         THEN <<argv[2]>> \o FlagValues(SubSeq(argv, 3, Len(argv)), flag)
         ELSE FlagValues(Tail(argv), flag)

\* C6: once an invocation has returned a non-zero status no later invocation
\* is started and the script has ended without calling analyse_results;
\* analyse_results is called only after every configuration's invocation has
\* exited with status 0.
C6_FailFast ==
    /\ \A i \in 1..Len(exits) :
          exits[i] # 0 => /\ Len(invocations) = i
                          /\ Len(exits) = i
                          /\ pc = "failed"
    /\ pc = "analysed" =>
          /\ Len(exits) = Len(all_configs)
          /\ \A i \in 1..Len(exits) : exits[i] = 0

\* the second of four invocations has failed
C6_Witness ==
    /\ pc = "failed"
    /\ Len(all_configs) = 4
    /\ Len(exits) = 2
    /\ exits[1] = 0

\* C7: invocations are started one at a time in enumeration order; the k-th
\* carries the overrides of the k-th configuration and the output directory
\* <output_dir>/configuration_<k>, k from 1; directories are pairwise distinct;
\* a sweep that reaches the analysis has invoked every configuration once.
C7_SequentialRuns ==
    \A dirs \in {[k \in 1..Len(invocations) |-> FlagValues(invocations[k], "-d")]} :
        /\ Len(invocations) <= Len(all_configs)
        /\ Len(exits) <= Len(invocations)
        /\ Len(invocations) <= Len(exits) + 1
        /\ (Len(invocations) = Len(exits) + 1) <=> (pc = "running")
        /\ \A k \in 1..Len(invocations) :
              /\ FlagValues(invocations[k], "-c")
                    = <<config.cfgfile>> \o ConfigurationSet_to_cli_args(all_configs[k])
              /\ dirs[k] = <<config.output_dir \o "/configuration_" \o ToString(k)>>
              /\ \A j \in 1..(k - 1) : dirs[j] # dirs[k]
        /\ pc = "analysed" => Len(invocations) = Len(all_configs)

\* a sweep of four configurations has run to its end
C7_Witness ==
    /\ pc = "analysed"
    /\ Len(invocations) = 4
    /\ FlagValues(invocations[4], "-d") = <<"out/configuration_4">>
    /\ Len(FlagValues(invocations[4], "-c")) = 3

-----------------------------------------------------------------------------
(* Serialization of hand-built configurations: to_cli_args as a function of   *)
(* any ConfigurationSet, not only of the generated ones                       *)

Roles == Range(DeclaredOrder)

AllFields == Range(CacheAxes) \cup Range(TLBAxes)

\* the value a set field holds in the modelled instances; associativity 0 is
\* the falsy value that "is not None" must still emit
FieldValue(field) ==
    CASE field = "cache_size" -> 32
      [] field = "cache_block_size" -> 64
      [] field = "associativity" -> 0
      [] field = "replacement" -> "lru"
      [] field = "entries" -> 128
      [] field = "page_size" -> 4096

\* a set of fields of an instance is coded as a bit mask: bit k - 1 stands for
\* the k-th field in declaration order
FieldOpt(field, mask, k) ==
    IF (mask \div (2 ^ (k - 1))) % 2 = 1 THEN Some(FieldValue(field)) ELSE None

\* the instance of the role's class whose set fields are those of mask
InstanceWith(role, mask) ==
    IF IsCacheRole(role)
    THEN CacheInstance(FieldOpt("cache_size", mask, 1),
                       FieldOpt("cache_block_size", mask, 2),
                       FieldOpt("associativity", mask, 3),
                       FieldOpt("replacement", mask, 4))
    ELSE TLBInstance(FieldOpt("entries", mask, 1),
                     FieldOpt("associativity", mask, 2),
                     FieldOpt("page_size", mask, 3))

\* the sets of at most k roles
RECURSIVE RoleSubsets(_)
RoleSubsets(k) ==
    IF k = 0 THEN {{}}
    ELSE LET smaller == RoleSubsets(k - 1)
         IN  smaller \cup {s \cup {r} : s \in smaller, r \in Roles}

\* the ConfigurationSet whose slots of DOMAIN valued hold the instance with the
\* given non-empty field mask, whose slots of unset hold the fully-unset
\* instance, and whose other slots are None
MakeConfig(valued, unset) ==
    LET slot(role) == IF role \in DOMAIN valued THEN Some(InstanceWith(role, valued[role]))
                      ELSE IF role \in unset THEN Some(InstanceWith(role, 0))
                      ELSE None
    IN  ConfigurationSet(slot("l1_icache"), slot("l1_dcache"), slot("l2_cache"),
                         slot("l3_cache"), slot("l4_cache"), slot("itlb"), slot("dtlb"))

\* <instance>.to_cli_args(role) of a slot, <<>> for None
SlotArgs(cfg, role) ==
    IF IsCacheRole(role) THEN ExtendCache(cfg[role], role) ELSE ExtendTLB(cfg[role], role)

\* inputs: cfgA holds instances in at most MaxSlots slots, some of them fully
\* unset; cfgB is cfgA with any of its fully-unset instances replaced by None
InitCli ==
    /\ \E R \in RoleSubsets(MaxSlots) :
         \E valued \in [R -> 1..(2 ^ Len(CacheAxes) - 1)] :
            \E uA \in RoleSubsets(MaxSlots - Cardinality(R)) :
               \E uB \in SUBSET uA :
                  /\ \A r \in R : valued[r] < 2 ^ Len(AxesOf(r))
                  /\ uA \cap R = {}
                  /\ cfgA = MakeConfig(valued, uA)
                  /\ cfgB = MakeConfig(valued, uB)
    /\ argsA = <<>> /\ argsB = <<>> /\ argsDev = <<>>
    /\ cli_pc = "input"
    /\ config = ADSEConfig(<<>>)
    /\ all_configs = <<>> /\ cfg_idx = 0 /\ pc = "unused"
    /\ invocations = <<>> /\ exits = <<>>
    /\ workspace_path = <<>> /\ parse_file = <<>> /\ parse_out = <<>>
    /\ parse_pc = "unused"
    /\ tree = {} /\ data = <<>> /\ metrics_df = <<>> /\ power_data = <<>>
    /\ power_df = <<>> /\ passes = 0 /\ error = FALSE /\ an_pc = "unused"

\* cfg.to_cli_args() on both inputs, and to_cli_args(role) on each slot of cfgA
Serialize ==
    /\ cli_pc = "input"
    /\ argsA' = ConfigurationSet_to_cli_args(cfgA)
    /\ argsB' = ConfigurationSet_to_cli_args(cfgB)
    /\ argsDev' = [role \in Roles |-> SlotArgs(cfgA, role)]
    /\ cli_pc' = "serialized"
    /\ UNCHANGED <<cfgA, cfgB, driverVars, parseVars, analyzerVars>>

NextCli == Serialize

SpecCli == InitCli /\ [][NextCli]_vars

Serialized == cli_pc = "serialized"

\* the text of the value a set field holds in the modelled instances
ValueText(field) ==
    CASE field = "cache_size" -> "32"
      [] field = "cache_block_size" -> "64"
      [] field = "associativity" -> "0"
      [] field = "replacement" -> "lru"
      [] field = "entries" -> "128"
      [] field = "page_size" -> "4096"

\* the positions, in declaration order, of the fields that are set
SetPositions(role, inst) ==
    {k \in DOMAIN AxesOf(role) : inst[AxesOf(role)[k]] # None}

\* C4: to_cli_args of a device instance returns one override argument per set
\* field and none for an unset field, in declaration order; with no field set
\* the result is empty, with one field set it has one argument.
C4_OneArgPerSetField ==
    Serialized =>
        \A role \in Roles :
            cfgA[role] # None =>
                LET inst == cfgA[role][1]
                    set == SetPositions(role, inst)
                    args == argsDev[role]
                IN  /\ Len(args) = Cardinality(set)
                    /\ \A k \in set :
                          args[Cardinality({j \in set : j <= k})]
                            = "\"perf_model/" \o role \o "/" \o AxesOf(role)[k] \o "="
                                \o ValueText(AxesOf(role)[k]) \o "\""

\* one instance with only associativity (value 0) set, one fully unset
C4_Witness ==
    /\ Serialized
    /\ cfgA.l2_cache = Some(CacheInstance(None, None, Some(0), None))
    /\ argsDev["l2_cache"] = <<"\"perf_model/l2_cache/associativity=0\"">>
    /\ cfgA.itlb = Some(TLBInstance(None, None, None))
    /\ argsDev["itlb"] = <<>>

\* the parameters a configuration assigns: per role the value of every field,
\* an absent device assigning none
Assigned(cfg) ==
    [role \in Roles |-> IF cfg[role] = None THEN FullyUnset(role) ELSE cfg[role][1]]

\* C5: ConfigurationSet.to_cli_args is the concatenation of the per-device
\* sequences in the order itlb, dtlb, l1_icache, l1_dcache, l2_cache, l3_cache,
\* l4_cache, and two configurations assigning the same values to the same
\* parameters serialize identically, an absent slot like a fully-unset one.
C5_StableSerialization ==
    Serialized =>
        /\ argsA = argsDev["itlb"] \o argsDev["dtlb"] \o argsDev["l1_icache"]
                     \o argsDev["l1_dcache"] \o argsDev["l2_cache"]
                     \o argsDev["l3_cache"] \o argsDev["l4_cache"]
        /\ Assigned(cfgA) = Assigned(cfgB) => argsA = argsB

\* cfgA holds a fully-unset instance where cfgB holds None, and both hold the
\* same valued instance
C5_Witness ==
    /\ Serialized
    /\ cfgA.l1_dcache = Some(CacheInstance(None, None, None, None))
    /\ cfgB.l1_dcache = None
    /\ cfgA.dtlb # None
    /\ Len(argsA) = 3
    /\ Assigned(cfgA) = Assigned(cfgB)

-----------------------------------------------------------------------------
(* analyzer.py: paths                                                         *)
(*                                                                            *)
(* A Path is the sequence of its components.  A directory name is a string;  *)
(* a file name is the sequence of its pieces (<<"sim", "(", "A", ")",         *)
(* ".out">> is sim(A).out), so that glob patterns and the file-name regex can *)
(* inspect it.  A report file is [dirs, name, readable, content]: dirs are    *)
(* the directories between the workspace root and the file.                   *)

\* Path(workspace_path): pathlib drops "." segments, so Path("") and Path(".")
\* both have no component
Path(segments) == SelectSeq(segments, LAMBDA seg : seg # ".")

\* Path.name: the last component, '' when there is none
PathName(path) == IF path = <<>> THEN "" ELSE path[Len(path)]

\* the text of a sequence of pieces
RECURSIVE Concat(_)
Concat(pieces) == IF pieces = <<>> THEN "" ELSE Head(pieces) \o Concat(Tail(pieces))

\* "/".join(parts)
RECURSIVE JoinPath(_)
JoinPath(parts) ==
    IF parts = <<>> THEN ""
    ELSE IF Len(parts) = 1 THEN parts[1]
    ELSE Head(parts) \o "/" \o JoinPath(Tail(parts))

\* str(file_path.relative_to(self.workspace_path))
RelativePath(file) == JoinPath(file.dirs \o <<Concat(file.name)>>)

\* file_path.parent.name
ParentName(file) ==
    IF file.dirs # <<>> THEN file.dirs[Len(file.dirs)] ELSE PathName(workspace_path)

\* file_path.parent.name if file_path.parent != self.workspace_path else ""
ParentDir(file) == IF file.dirs # <<>> THEN ParentName(file) ELSE ""

-----------------------------------------------------------------------------
(* analyzer.py: report texts                                                  *)
(*                                                                            *)
(* A report text is a sequence of lines, a line a sequence of tokens, a token *)
(* a sequence of strings: a one-element sequence for a label or a symbol     *)
(* (<<"Cycles">>, <<"|">>, <<"%">>, <<"W">>), the sequence of its characters  *)
(* for a run of digits and dots (<<"1", ".", "2">>).  Tokens are separated by *)
(* white space, except that "%" directly follows the token before it.        *)

Digits == {"0", "1", "2", "3", "4", "5", "6", "7", "8", "9"}

W(word) == <<word>>

\* the tokens of the text in order, line breaks dropped
RECURSIVE Tokens(_)
Tokens(lines) == IF lines = <<>> THEN <<>> ELSE Head(lines) \o Tokens(Tail(lines))

\* the positions in Tokens(lines) of the tokens that start a line
RECURSIVE LineStarts(_, _)
LineStarts(lines, offset) ==
    IF lines = <<>> THEN {}
    ELSE (IF Head(lines) # <<>> THEN {offset + 1} ELSE {})
         \cup LineStarts(Tail(lines), offset + Len(Head(lines)))

\* the token at position i, <<>> past the end
At(text, i) == IF i \in 1..Len(text) THEN text[i] ELSE <<>>

\* [\d.]+ covering the whole token
IsNumber(tok) == tok # <<>> /\ \A k \in 1..Len(tok) : tok[k] \in Digits \cup {"."}

\* \d+ at the start of the token: the longest prefix of digits
RECURSIVE DigitPrefix(_)
DigitPrefix(tok) ==
    IF tok # <<>> /\ Head(tok) \in Digits THEN <<Head(tok)>> \o DigitPrefix(Tail(tok))
    ELSE <<>>

\* the leftmost position of a set of match positions, 0 when there is none
Leftmost(positions) ==
    IF positions = {} THEN 0 ELSE CHOOSE i \in positions : \A j \in positions : i <= j

\* re.search(r'<label>\s*\|\s*(\d+)', content): the captured group, or None
SearchLabelDigits(text, label) ==
    LET hit(i) == /\ At(text, i) = W(label)
                  /\ At(text, i + 1) = W("|")
                  /\ DigitPrefix(At(text, i + 2)) # <<>>
        i0 == Leftmost({i \in 1..Len(text) : hit(i)})
    IN  IF i0 = 0 THEN None ELSE Some(DigitPrefix(text[i0 + 2]))

\* re.search(r'<label>\s*\|\s*([\d.]+)', content)
SearchLabelNumber(text, label) ==
    LET hit(i) == /\ At(text, i) = W(label)
                  /\ At(text, i + 1) = W("|")
                  /\ IsNumber(At(text, i + 2))
        i0 == Leftmost({i \in 1..Len(text) : hit(i)})
    IN  IF i0 = 0 THEN None ELSE Some(text[i0 + 2])

\* miss rate\s*\|\s*([\d.]+)% at position j
MissRateAt(text, j) ==
    /\ At(text, j) = W("miss rate")
    /\ At(text, j + 1) = W("|")
    /\ IsNumber(At(text, j + 2))
    /\ At(text, j + 3) = W("%")

\* re.search(r'<section>\s*\|.*?miss rate\s*\|\s*([\d.]+)%', content, re.DOTALL):
\* the leftmost section label that any miss-rate row follows, and after it the
\* nearest such row, whatever lies between
SearchSectionMissRate(text, section) ==
    LET rows(i) == {j \in (i + 2)..Len(text) : MissRateAt(text, j)}
        hit(i) == /\ At(text, i) = W(section)
                  /\ At(text, i + 1) = W("|")
                  /\ rows(i) # {}
        i0 == Leftmost({i \in 1..Len(text) : hit(i)})
    IN  IF i0 = 0 THEN None ELSE Some(text[Leftmost(rows(i0)) + 2])

\* re.search(r'total\s+([\d.]+)\s*W', content)
SearchTotalPower(text) ==
    LET hit(i) == /\ At(text, i) = W("total")
                  /\ IsNumber(At(text, i + 1))
                  /\ At(text, i + 2) = W("W")
        i0 == Leftmost({i \in 1..Len(text) : hit(i)})
    IN  IF i0 = 0 THEN None ELSE Some(text[i0 + 1])

\* re.search(r'total\s+[\d.]+\s*W\s+([\d.]+)\s*J', content)
SearchTotalEnergy(text) ==
    LET hit(i) == /\ At(text, i) = W("total")
                  /\ IsNumber(At(text, i + 1))
                  /\ At(text, i + 2) = W("W")
                  /\ IsNumber(At(text, i + 3))
                  /\ At(text, i + 4) = W("J")
        i0 == Leftmost({i \in 1..Len(text) : hit(i)})
    IN  IF i0 = 0 THEN None ELSE Some(text[i0 + 3])

\* re.search(r'^\s*<component>\s+([\d.]+)\s*W', content, re.MULTILINE)
SearchComponentPower(text, starts, component) ==
    LET hit(i) == /\ i \in starts
                  /\ At(text, i) = W(component)
                  /\ IsNumber(At(text, i + 1))
                  /\ At(text, i + 2) = W("W")
        i0 == Leftmost({i \in 1..Len(text) : hit(i)})
    IN  IF i0 = 0 THEN None ELSE Some(text[i0 + 1])

-----------------------------------------------------------------------------
(* analyzer.py: int() and float() of a captured group *)

DigitValue(c) ==
    CASE c = "0" -> 0 [] c = "1" -> 1 [] c = "2" -> 2 [] c = "3" -> 3 [] c = "4" -> 4
      [] c = "5" -> 5 [] c = "6" -> 6 [] c = "7" -> 7 [] c = "8" -> 8 [] c = "9" -> 9

\* int(group) of a run of digits
RECURSIVE IntOf(_)
IntOf(chars) ==
    IF chars = <<>> THEN 0
    ELSE 10 * IntOf(SubSeq(chars, 1, Len(chars) - 1)) + DigitValue(chars[Len(chars)])

\* float() accepts a run of digits and dots that holds at most one dot and at
\* least one digit; anything else raises ValueError
FloatAccepts(chars) ==
    /\ Cardinality({k \in 1..Len(chars) : chars[k] = "."}) <= 1
    /\ \E k \in 1..Len(chars) : chars[k] \in Digits

\* m * 10^e without trailing zeros in m
RECURSIVE Normalized(_, _)
Normalized(m, e) ==
    IF m = 0 THEN [mantissa |-> 0, exponent |-> 0]
    ELSE IF e < 0 /\ m % 10 = 0 THEN Normalized(m \div 10, e + 1)
    ELSE [mantissa |-> m, exponent |-> e]

\* float(group), for an accepted group: the decimal value mantissa * 10^exponent
FloatOf(chars) ==
    LET dot == Leftmost({k \in 1..Len(chars) : chars[k] = "."})
        digits == SelectSeq(chars, LAMBDA c : c # ".")
    IN  Normalized(IntOf(digits), IF dot = 0 THEN 0 ELSE dot - Len(chars))

-----------------------------------------------------------------------------
(* analyzer.py: the two parsers                                               *)
(*                                                                            *)
(* A Run Record (the dict a parser returns) is a function from its keys to    *)
(* their values.  The outcome of a block of statements is [raised, metrics]:  *)
(* whether an exception left the block, and the dict as it stood then.        *)

\* the leftmost "sim(" that a ")" followed by ".out" closes after at least one
\* piece, and the nearest such ")": re.search(r'sim\((.+?)\)\.out', filename)
SearchBracketLabel(name) ==
    LET closes(i) == {j \in (i + 3)..Len(name) :
                          At(name, j) = ")" /\ At(name, j + 1) = ".out"}
        hit(i) == name[i] = "sim" /\ At(name, i + 1) = "(" /\ closes(i) # {}
        i0 == Leftmost({i \in 1..Len(name) : hit(i)})
    IN  IF i0 = 0 THEN None
        ELSE Some(Concat(SubSeq(name, i0 + 2, Leftmost(closes(i0)) - 1)))

\* s.strip('()') on the pieces of a name
RECURSIVE StripBrackets(_)
StripBrackets(pieces) ==
    IF pieces = <<>> THEN <<>>
    ELSE IF Head(pieces) \in {"(", ")"} THEN StripBrackets(Tail(pieces))
    ELSE IF pieces[Len(pieces)] \in {"(", ")"}
         THEN StripBrackets(SubSeq(pieces, 1, Len(pieces) - 1))
    ELSE pieces

extract_architecture_name(filename, parent_dir) ==
    LET match == SearchBracketLabel(filename)
    IN  IF match # None THEN match[1]
        ELSE IF parent_dir # "" /\ parent_dir # "." THEN parent_dir
        ELSE Concat(StripBrackets(
                 SelectSeq(SelectSeq(filename, LAMBDA x : x # ".out"),
                           LAMBDA x : x # "sim")))

\* the statements of a try block after the read, one per metric: a search, and
\* when it matched a conversion and an assignment to the dict.  A conversion
\* that raises ends the block with the dict as it stands
RECURSIVE RunSteps(_, _)
RunSteps(steps, metrics) ==
    IF steps = <<>> THEN [raised |-> FALSE, metrics |-> metrics]
    ELSE LET step == Head(steps)
         IN  IF step.group = None THEN RunSteps(Tail(steps), metrics)
             ELSE IF step.conv = "int"
                  THEN RunSteps(Tail(steps), (step.key :> IntOf(step.group[1])) @@ metrics)
             ELSE IF FloatAccepts(step.group[1])
                  THEN RunSteps(Tail(steps), (step.key :> FloatOf(step.group[1])) @@ metrics)
             ELSE [raised |-> TRUE, metrics |-> metrics]

SimSteps(text) ==
    <<[key |-> "Cycles", group |-> SearchLabelDigits(text, "Cycles"), conv |-> "int"],
      [key |-> "IPC", group |-> SearchLabelNumber(text, "IPC"), conv |-> "float"],
      [key |-> "L1-D Miss Rate (%)",
       group |-> SearchSectionMissRate(text, "Cache L1-D"), conv |-> "float"],
      [key |-> "L2 Miss Rate (%)",
       group |-> SearchSectionMissRate(text, "Cache L2"), conv |-> "float"],
      [key |-> "L3 Miss Rate (%)",
       group |-> SearchSectionMissRate(text, "Cache L3"), conv |-> "float"]>>

PowerSteps(text, starts) ==
    <<[key |-> "Total Power (W)", group |-> SearchTotalPower(text), conv |-> "float"],
      [key |-> "Total Energy (J)", group |-> SearchTotalEnergy(text), conv |-> "float"],
      [key |-> "Core Power (W)",
       group |-> SearchComponentPower(text, starts, "core"), conv |-> "float"],
      [key |-> "Cache Power (W)",
       group |-> SearchComponentPower(text, starts, "cache"), conv |-> "float"],
      [key |-> "DRAM Power (W)",
       group |-> SearchComponentPower(text, starts, "dram"), conv |-> "float"]>>

\* the try block: open() or read() of an unreadable file raises before any
\* metric is assigned
TryParse(file, steps, metrics) ==
    IF ~file.readable THEN [raised |-> TRUE, metrics |-> metrics]
    ELSE RunSteps(steps, metrics)

\* variant without the except clause: the exception leaves the parser
Uncaught(outcome) == outcome

\* "except Exception as e: print(...); return metrics"
CatchAll(outcome) == [raised |-> FALSE, metrics |-> outcome.metrics]

parse_sim_file(file) ==
    LET metrics == ("Architecture" :> extract_architecture_name(file.name, ParentDir(file)))
                   @@ ("File Path" :> RelativePath(file))
    IN  CatchAll(TryParse(file, SimSteps(Tokens(file.content)), metrics))

parse_powerstack_file(file) ==
    LET parent_dir == ParentDir(file)
        arch_name == IF parent_dir # "" THEN parent_dir ELSE ParentName(file)
        power_metrics ==
            ("Architecture" :> (IF arch_name # "." THEN arch_name ELSE "default"))
            @@ ("File Path" :> RelativePath(file))
    IN  CatchAll(TryParse(file,
                          PowerSteps(Tokens(file.content), LineStarts(file.content, 0)),
                          power_metrics))

-----------------------------------------------------------------------------
(* Bounded report files *)

SimNames == {<<"sim", ".out">>, <<"sim", "(", "A", ")", ".out">>, <<"sim", "_b", ".out">>}

PowerNames == {<<"powerstack", ".txt">>, <<"powerstack", "_1", ".txt">>}

\* rows a performance report may hold
SimLines ==
    {<<W("Cycles"), W("|"), <<"1", "2", "3", "4", "5">>>>,
     <<W("IPC"), W("|"), <<"1", ".", "2", "3">>>>,
     <<W("IPC"), W("|"), <<"1", ".", "2", ".", "3">>>>,
     <<W("Cache L1-D"), W("|")>>,
     <<W("Cache L1-D"), W("|"), W("miss rate"), W("|"), <<"5", ".", "0">>, W("%")>>,
     <<W("Cache L2"), W("|"), W("miss rate"), W("|"), <<"7", ".", "5">>, W("%")>>,
     <<W("Cache L3"), W("|"), W("miss rate"), W("|"), <<".", "5">>, W("%")>>,
     <<W("miss rate"), W("|"), <<"9">>, W("%")>>,
     <<W("Instructions"), W("|"), <<"9", "9">>>>}

\* rows a power report may hold
PowerLines ==
    {<<W("total"), <<"4", "5", ".", "6">>, W("W"), <<"1", "2", "3", ".", "4">>, W("J")>>,
     <<W("total"), <<"7", ".">>, W("W")>>,
     <<W("total"), <<"4", ".", "5", ".", "6">>, W("W"), <<"1">>, W("J")>>,
     <<W("core"), <<"1", ".", "5">>, W("W")>>,
     <<W("cache"), <<"2", ".", "5">>, W("W")>>,
     <<W("dram"), <<"3", ".", "5">>, W("W")>>,
     <<W("peak"), W("core"), <<"8">>, W("W")>>}

\* the texts of at most n lines
Texts(lines, n) == UNION {[1..k -> lines] : k \in 0..n}

\* the directories a report may lie in, below the workspace root
ReportDirs == {<<>>, <<"configuration_1">>, <<"archs", "A">>}

\* the workspace_path arguments of SimulationAnalyzer
WorkspaceArgs == {<<>>, <<".">>, <<"out">>, <<"runs", ".", "out">>}

File(dirs, name, readable, content) ==
    [dirs |-> dirs, name |-> name, readable |-> readable, content |-> content]

\* a report of one family: readable with some text, or unreadable
ReportFiles(names, lines) ==
    {File(dirs, name, TRUE, content) :
        dirs \in ReportDirs, name \in names, content \in Texts(lines, MaxLines)}
    \cup {File(dirs, name, FALSE, <<>>) : dirs \in ReportDirs, name \in names}

-----------------------------------------------------------------------------
(* The parsers applied to one report file *)

InitParse ==
    /\ \E arg \in WorkspaceArgs : workspace_path = Path(arg)
    /\ parse_file \in ReportFiles(SimNames, SimLines) \cup ReportFiles(PowerNames, PowerLines)
    /\ parse_out = <<>>
    /\ parse_pc = "input"
    /\ config = <<>> /\ all_configs = <<>> /\ cfg_idx = 0 /\ pc = "unused"
    /\ invocations = <<>> /\ exits = <<>>
    /\ cfgA = <<>> /\ cfgB = <<>> /\ argsA = <<>> /\ argsB = <<>>
    /\ argsDev = <<>> /\ cli_pc = "unused"
    /\ tree = {} /\ data = <<>> /\ metrics_df = <<>> /\ power_data = <<>>
    /\ power_df = <<>> /\ passes = 0 /\ error = FALSE /\ an_pc = "unused"

ParseSimFile ==
    /\ parse_pc = "input"
    /\ parse_file.name \in SimNames
    /\ parse_out' = parse_sim_file(parse_file)
    /\ parse_pc' = "parse_sim_file"
    /\ UNCHANGED <<workspace_path, parse_file, driverVars, cliVars, analyzerVars>>

ParsePowerstackFile ==
    /\ parse_pc = "input"
    /\ parse_file.name \in PowerNames
    /\ parse_out' = parse_powerstack_file(parse_file)
    /\ parse_pc' = "parse_powerstack_file"
    /\ UNCHANGED <<workspace_path, parse_file, driverVars, cliVars, analyzerVars>>

NextParse == ParseSimFile \/ ParsePowerstackFile

SpecParse == InitParse /\ [][NextParse]_vars

\* the metric keys of each parser
SimKeys == {"Cycles", "IPC", "L1-D Miss Rate (%)", "L2 Miss Rate (%)", "L3 Miss Rate (%)"}

PowerKeys == {"Total Power (W)", "Total Energy (J)", "Core Power (W)",
              "Cache Power (W)", "DRAM Power (W)"}

\* the field's own pattern matches the text
PatternMatches(key, lines) ==
    LET text == Tokens(lines)
        starts == LineStarts(lines, 0)
    IN  CASE key = "Cycles" -> SearchLabelDigits(text, "Cycles") # None
          [] key = "IPC" -> SearchLabelNumber(text, "IPC") # None
          [] key = "L1-D Miss Rate (%)" -> SearchSectionMissRate(text, "Cache L1-D") # None
          [] key = "L2 Miss Rate (%)" -> SearchSectionMissRate(text, "Cache L2") # None
          [] key = "L3 Miss Rate (%)" -> SearchSectionMissRate(text, "Cache L3") # None
          [] key = "Total Power (W)" -> SearchTotalPower(text) # None
          [] key = "Total Energy (J)" -> SearchTotalEnergy(text) # None
          [] key = "Core Power (W)" -> SearchComponentPower(text, starts, "core") # None
          [] key = "Cache Power (W)" -> SearchComponentPower(text, starts, "cache") # None
          [] key = "DRAM Power (W)" -> SearchComponentPower(text, starts, "dram") # None

\* C8: for a readable report the parser does not raise, and a metric key is in
\* the returned Run Record exactly when that field's own pattern matches the
\* text, whatever the other fields do.
C8_FieldsIndependent ==
    (parse_pc # "input" /\ parse_file.readable) =>
        /\ ~parse_out.raised
        /\ \A key \in (IF parse_pc = "parse_sim_file" THEN SimKeys ELSE PowerKeys) :
              key \in DOMAIN parse_out.metrics <=> PatternMatches(key, parse_file.content)

\* C10: a power report's Architecture is the name of its parent directory,
\* and 'default' when the report lies directly in the workspace root.
C10_PowerIdentity ==
    parse_pc = "parse_powerstack_file" =>
        parse_out.metrics["Architecture"]
            = IF parse_file.dirs # <<>> THEN parse_file.dirs[Len(parse_file.dirs)]
              ELSE "default"

\* C11: a performance report in a run directory below the workspace root,
\* whatever its file name, gets the Architecture that parse_powerstack_file
\* gives to a power report lying in the same directory.
C11_SharedIdentity ==
    (parse_pc = "parse_sim_file" /\ parse_file.dirs # <<>>) =>
        \A name \in PowerNames :
            parse_out.metrics["Architecture"]
                = parse_powerstack_file(File(parse_file.dirs, name, TRUE, <<>>))
                      .metrics["Architecture"]

\* the section labels of the three cache levels and their metric keys
SectionKey ==
    ("Cache L1-D" :> "L1-D Miss Rate (%)") @@ ("Cache L2" :> "L2 Miss Rate (%)")
    @@ ("Cache L3" :> "L3 Miss Rate (%)")

\* a section of the level holds a miss-rate row: the row follows the level's
\* label with no section label of a cache level between them
OwnSectionHasRate(text, section) ==
    \E i \in 1..Len(text) :
        /\ At(text, i) = W(section)
        /\ At(text, i + 1) = W("|")
        /\ \E j \in (i + 2)..Len(text) :
              /\ MissRateAt(text, j)
              /\ \A k \in (i + 1)..(j - 1) :
                    \A other \in DOMAIN SectionKey : text[k] # W(other)

\* C15: parse_sim_file records a miss rate for a cache level only if that
\* level's own section holds a miss-rate row.
C15_OwnSectionMissRate ==
    parse_pc = "parse_sim_file" =>
        \A section \in DOMAIN SectionKey :
            SectionKey[section] \in DOMAIN parse_out.metrics
                => OwnSectionHasRate(Tokens(parse_file.content), section)

-----------------------------------------------------------------------------
(* analyzer.py: discovery of the report files                                 *)
(*                                                                            *)
(* The tree is the set of files below the workspace root, no two at the same  *)
(* path.  File names are cut into pieces where the glob patterns cut them: a  *)
(* leading "sim" or "powerstack", a "(", and the suffix are pieces of their   *)
(* own.                                                                       *)

\* fnmatch of a file name against the last segment of a glob pattern
GlobMatches(pattern, name) ==
    CASE pattern = "sim(*.out" ->
             Len(name) >= 3 /\ name[1] = "sim" /\ name[2] = "(" /\ name[Len(name)] = ".out"
      [] pattern = "sim.out" -> name = <<"sim", ".out">>
      [] pattern = "sim*.out" ->
             Len(name) >= 2 /\ name[1] = "sim" /\ name[Len(name)] = ".out"
      [] pattern = "powerstack*.txt" ->
             Len(name) >= 2 /\ name[1] = "powerstack" /\ name[Len(name)] = ".txt"

\* self.workspace_path.glob("**/<pattern>"): the matching files at any depth.
\* The order in which a glob yields them is the file system's; every caller
\* sorts the result
Glob(pattern) == {file \in tree : GlobMatches(pattern, file.name)}

\* the path components the model uses, in the order of Python's str comparison
StrOrder ==
    <<"A", "archs", "configuration_1", "notes.txt", "powerstack.txt",
      "powerstack_1.txt", "sim(A).out", "sim.out", "sim_b.out">>

StrLess(a, b) ==
    (CHOOSE i \in 1..Len(StrOrder) : StrOrder[i] = a)
        < (CHOOSE i \in 1..Len(StrOrder) : StrOrder[i] = b)

\* the parts of a file's path below the workspace root
PathParts(file) == file.dirs \o <<Concat(file.name)>>

\* Path.__lt__: the parts compared as lists of str
RECURSIVE PartsLess(_, _)
PartsLess(p, q) ==
    IF q = <<>> THEN FALSE
    ELSE IF p = <<>> THEN TRUE
    ELSE IF Head(p) = Head(q) THEN PartsLess(Tail(p), Tail(q))
    ELSE StrLess(Head(p), Head(q))

\* sorted(files)
RECURSIVE Sorted(_)
Sorted(files) ==
    IF files = {} THEN <<>>
    ELSE LET least == CHOOSE f \in files :
                          \A g \in files \ {f} : PartsLess(PathParts(f), PathParts(g))
         IN  <<least>> \o Sorted(files \ {least})

RECURSIVE Reversed(_)
Reversed(list) == IF list = <<>> THEN <<>> ELSE Reversed(Tail(list)) \o <<Head(list)>>

\* list(self.workspace_path.glob("**/<pattern>")): each matching file once, in
\* the order of the directory listing, here the reverse of the sorted order
GlobList(pattern) == Reversed(Sorted(Glob(pattern)))

\* variant that returns the three listings one after the other
find_sim_files_as_listed ==
    GlobList("sim(*.out") \o GlobList("sim.out") \o GlobList("sim*.out")

find_sim_files ==
    LET sim_files == GlobList("sim(*.out") \o GlobList("sim.out")
        rest == SelectSeq(GlobList("sim*.out"), LAMBDA f : f \notin Range(sim_files))
    IN  Sorted(Range(sim_files \o rest))

find_powerstack_files == Sorted(Range(GlobList("powerstack*.txt")))

-----------------------------------------------------------------------------
(* analyzer.py: the aggregation pass *)

\* the keys of the Run Records in the order the parsers insert them
KeyOrder ==
    <<"Architecture", "File Path",
      "Cycles", "IPC", "L1-D Miss Rate (%)", "L2 Miss Rate (%)", "L3 Miss Rate (%)",
      "Total Power (W)", "Total Energy (J)", "Core Power (W)", "Cache Power (W)",
      "DRAM Power (W)">>

\* the columns of pd.DataFrame(rows): the keys in order of first appearance
RECURSIVE Columns(_, _)
Columns(rows, seen) ==
    IF rows = <<>> THEN seen
    ELSE Columns(Tail(rows),
                 seen \o SelectSeq(KeyOrder,
                                   LAMBDA k : k \in DOMAIN Head(rows) /\ k \notin Range(seen)))

\* pd.DataFrame(rows): one row per dict, a key the dict lacks is NaN
DataFrame(rows) ==
    LET columns == Columns(rows, <<>>)
    IN  [columns |-> columns,
         rows |-> [i \in 1..Len(rows) |->
                      [k \in Range(columns) |->
                          IF k \in DOMAIN rows[i] THEN rows[i][k] ELSE "NaN"]]]

\* "for file in files: rows.append(parser(file))": an exception that leaves
\* the parser leaves the loop with the rows appended so far
RECURSIVE ParseEach(_, _, _)
ParseEach(family, files, rows) ==
    IF files = <<>> THEN [raised |-> FALSE, rows |-> rows]
    ELSE LET outcome == IF family = "sim" THEN parse_sim_file(Head(files))
                        ELSE parse_powerstack_file(Head(files))
         IN  IF outcome.raised THEN [raised |-> TRUE, rows |-> rows]
             ELSE ParseEach(family, Tail(files), Append(rows, outcome.metrics))

\* the body of analyze_all on the analyzer as it stands
analyze_all ==
    \E sim_files \in {find_sim_files}, power_files \in {find_powerstack_files} :
    \E sim \in {ParseEach("sim", sim_files, data)} :
    \E power \in {IF sim.raised THEN [raised |-> FALSE, rows |-> power_data]
                  ELSE ParseEach("power", power_files, power_data)} :
        /\ data' = sim.rows
        /\ metrics_df' = IF sim_files # <<>> /\ ~sim.raised
                         THEN Some(DataFrame(sim.rows)) ELSE metrics_df
        /\ power_data' = power.rows
        /\ power_df' = IF power_files # <<>> /\ ~sim.raised /\ ~power.raised
                       THEN Some(DataFrame(power.rows)) ELSE power_df
        /\ error' = (sim.raised \/ power.raised)
        /\ passes' = passes + 1

\* len(df) of an Optional DataFrame that is not None
DfLen(df) == Len(df[1].rows)

-----------------------------------------------------------------------------
(* Bounded output trees *)

TreeNames == SimNames \cup PowerNames \cup {<<"notes", ".txt">>}

\* what a file at a path may hold: nothing readable, or a text of its family
\* (one of two for a performance report)
FileAt(dirs, name, variant) ==
    IF variant = 0 THEN File(dirs, name, FALSE, <<>>)
    ELSE IF name \in SimNames
         THEN File(dirs, name, TRUE,
                   IF variant = 1
                   THEN <<<<W("Cycles"), W("|"), <<"1", "2", "3", "4", "5">>>>,
                          <<W("IPC"), W("|"), <<"1", ".", "2", "3">>>>>>
                   ELSE <<<<W("IPC"), W("|"), <<"1", ".", "2", ".", "3">>>>,
                          <<W("Cache L2"), W("|"), W("miss rate"), W("|"),
                            <<"7", ".", "5">>, W("%")>>>>)
    ELSE IF name \in PowerNames
         THEN File(dirs, name, TRUE,
                   <<<<W("total"), <<"4", "5", ".", "6">>, W("W"),
                       <<"1", "2", "3", ".", "4">>, W("J")>>,
                     <<W("core"), <<"1", ".", "5">>, W("W")>>>>)
    ELSE File(dirs, name, TRUE, <<>>)

\* the sets of at most n elements of S
RECURSIVE SubsetsUpTo(_, _)
SubsetsUpTo(S, n) ==
    IF n = 0 THEN {{}}
    ELSE LET smaller == SubsetsUpTo(S, n - 1)
         IN  smaller \cup {T \cup {x} : T \in smaller, x \in S}

\* the workspace_path arguments of the analyzers that aggregate a tree
TreeRoots == {<<".">>, <<"out">>}

\* the directories of the tree that hold files: the root and a nested one
TreeDirs == {<<>>, <<"archs", "A">>}

\* the states a file of that name may be in
Variants(name) ==
    IF name \in SimNames THEN 0..2 ELSE IF name \in PowerNames THEN 0..1 ELSE {1}

-----------------------------------------------------------------------------
(* The aggregator over an output tree *)

InitAnalyzer ==
    /\ \E arg \in TreeRoots : workspace_path = Path(arg)
    /\ \E paths \in SubsetsUpTo(TreeDirs \X TreeNames, MaxFiles) :
       \E variant \in [paths -> 0..2] :
           /\ \A path \in paths : variant[path] \in Variants(path[2])
           /\ tree = {FileAt(path[1], path[2], variant[path]) : path \in paths}
    /\ data = <<>> /\ metrics_df = None /\ power_data = <<>> /\ power_df = None
    /\ passes = 0 /\ error = FALSE /\ an_pc = "constructed"
    /\ parse_file = <<>> /\ parse_out = <<>> /\ parse_pc = "unused"
    /\ config = <<>> /\ all_configs = <<>> /\ cfg_idx = 0 /\ pc = "unused"
    /\ invocations = <<>> /\ exits = <<>>
    /\ cfgA = <<>> /\ cfgB = <<>> /\ argsA = <<>> /\ argsB = <<>>
    /\ argsDev = <<>> /\ cli_pc = "unused"

\* analyzer.analyze_all(), called on the same analyzer any number of times
AnalyzeAll ==
    /\ an_pc \in {"constructed", "analyzed"}
    /\ passes < MaxPasses
    /\ ~error
    /\ analyze_all
    /\ an_pc' = "analyzed"
    /\ UNCHANGED <<tree, parseVars, driverVars, cliVars>>

\* variant that never takes the else branch
HasData_unconditional(df, other_df) == TRUE

\* the condition of analyse_results: one of the datasets exists and has a row
HasData(df, other_df) ==
    \/ (df # None /\ DfLen(df) > 0)
    \/ (other_df # None /\ DfLen(other_df) > 0)

\* analyse_results(workspace_path): a new analyzer, one pass, then the
\* visualizations or the message that there is no data
AnalyseResults ==
    /\ an_pc = "constructed"
    /\ analyze_all
    /\ an_pc' = IF error' THEN "raised"
                ELSE IF HasData(metrics_df', power_df') THEN "generate_all_visualizations"
                ELSE "no data found"
    /\ UNCHANGED <<tree, parseVars, driverVars, cliVars>>

NextAnalyzer == AnalyzeAll \/ AnalyseResults

SpecAnalyzer == InitAnalyzer /\ [][NextAnalyzer]_vars

\* the rows of a list of Run Records that belong to a file
RowsOf(rows, file) == {i \in 1..Len(rows) : rows[i]["File Path"] = RelativePath(file)}

IdentityKeys == {"Architecture", "File Path"}

\* every discovered file of a family has one row per pass, in the list and in
\* the dataset, and the rows of an unreadable file hold the identity only
FamilyAggregated(files, rows, df) ==
    /\ Len(rows) = passes * Len(files)
    /\ files # <<>> => df # None /\ DfLen(df) = Len(rows)
    /\ \A n \in 1..Len(files) :
          /\ Cardinality(RowsOf(rows, files[n])) = passes
          /\ ~files[n].readable =>
                \A i \in RowsOf(rows, files[n]) : DOMAIN rows[i] = IdentityKeys

\* C9: after analyze_all no exception has left it, every discovered file of
\* both families has its own row, and the row of a file that could not be
\* read holds only Architecture and File Path.
C9_ReadFailureContained ==
    an_pc = "analyzed" =>
        /\ ~error
        /\ \A sim_files \in {find_sim_files} :
              FamilyAggregated(sim_files, data, metrics_df)
        /\ \A power_files \in {find_powerstack_files} :
              FamilyAggregated(power_files, power_data, power_df)

\* an unreadable performance report is followed by a readable one, and a
\* readable power report lies in the tree; all three have their rows
C9_Witness ==
    /\ an_pc = "analyzed"
    /\ passes = 1
    /\ ~error
    /\ Len(find_sim_files) >= 2
    /\ ~find_sim_files[1].readable
    /\ DOMAIN data[1] = IdentityKeys
    /\ find_sim_files[2].readable
    /\ "Cycles" \in DOMAIN data[2]
    /\ Len(find_powerstack_files) = 1
    /\ find_powerstack_files[1].readable
    /\ "Total Power (W)" \in DOMAIN power_data[1]

\* a discovery result holds every matching file once, in ascending path order
SortedOnce(files, matching) ==
    /\ Range(files) = matching
    /\ Len(files) = Cardinality(matching)
    /\ \A i, j \in 1..Len(files) :
          i < j => PartsLess(PathParts(files[i]), PathParts(files[j]))

\* the rows every pass appended follow the order of the discovered files
RowsInOrder(rows, files) ==
    \A i \in 1..Len(rows) :
        /\ files # <<>>
        /\ rows[i]["File Path"] = RelativePath(files[((i - 1) % Len(files)) + 1])

C13_FreshDataset ==
    an_pc = "analyzed" =>
        /\ metrics_df # None => DfLen(metrics_df) = Len(find_sim_files)
        /\ power_df # None => DfLen(power_df) = Len(find_powerstack_files)

=============================================================================
